---------------------------- MODULE Spec2Model ----------------------------
(***************************************************************************)
(* RobotGuard (workflows/crawler/libs/__init__.py): fetches a site's       *)
(* robots.txt through an injected HTTP client, feeds it to the standard    *)
(* library's RobotFileParser, and answers can_fetch / get_crawl_delay /    *)
(* get_sitemaps.                                                           *)
(*                                                                         *)
(* Strings are sequences of one-character tokens, so that prefix tests,    *)
(* substring tests, lower-casing and percent-quoting are computed.  A      *)
(* robots.txt body is the sequence of its lines after splitlines(); a line *)
(* is the pair (directive name, value) that the parser's comment           *)
(* stripping, split(':', 1), strip() and lower() produce, or Blank.  A URL *)
(* is given by its written components (scheme, network location, path,    *)
(* query); can_fetch unquotes and parses the string they spell.            *)
(***************************************************************************)
EXTENDS Integers, Sequences, FiniteSets, TLC

VARIABLES base_url, user_agent, robots_txt_url, parser, loaded,
          pending, sent, received, last

vars == <<base_url, user_agent, robots_txt_url, parser, loaded,
          pending, sent, received, last>>

(***************************************************************************)
(* Bounds.                                                                 *)
(***************************************************************************)
\* load() calls (GET requests) issued on one guard
MaxLoads == 2

\* timeout=10.0 of client.get
GetTimeout == 10

(***************************************************************************)
(* Strings.                                                                *)
(***************************************************************************)
StartsWith(s, p) == /\ Len(p) <= Len(s)
                    /\ SubSeq(s, 1, Len(p)) = p

IsSubstring(a, s) == \E i \in 0..(Len(s) - Len(a)) : SubSeq(s, i + 1, i + Len(a)) = a

LowerChar(c) == CASE c = "B" -> "b"
                  [] c = "C" -> "c"
                  [] c = "M" -> "m"
                  [] OTHER -> c

Lower(s) == [i \in 1..Len(s) |-> LowerChar(s[i])]

\* s.split("/")[0]
RECURSIVE BeforeSlash(_)
BeforeSlash(s) == IF s = <<>> \/ Head(s) = "/" THEN <<>>
                  ELSE <<Head(s)>> \o BeforeSlash(Tail(s))

\* urllib.parse.quote with its default safe="/": "?" is percent-encoded
RECURSIVE Quote(_)
Quote(s) == IF s = <<>> THEN <<>>
            ELSE (IF Head(s) = "?" THEN <<"%", "3", "F">> ELSE <<Head(s)>>)
                 \o Quote(Tail(s))

\* urllib.parse.unquote: "%3F" is decoded to "?"
RECURSIVE Unquote(_)
Unquote(s) == IF s = <<>> THEN <<>>
              ELSE IF StartsWith(s, <<"%", "3", "F">>)
                   THEN <<"?">> \o Unquote(SubSeq(s, 4, Len(s)))
                   ELSE <<Head(s)>> \o Unquote(Tail(s))

(***************************************************************************)
(* Directive values.                                                       *)
(***************************************************************************)
AsciiDigits == {"0", "1", "2", "3", "4", "5", "6", "7", "8", "9"}

\* "sup2" stands for U+00B2 (superscript two): str.isdigit() accepts it,
\* int() does not
IsDigit(s) == /\ s # <<>>
              /\ \A i \in 1..Len(s) : s[i] \in AsciiDigits \cup {"sup2"}

IntRaises(s) == \E i \in 1..Len(s) : s[i] \notin AsciiDigits

DigitValue(c) == CASE c = "0" -> 0 [] c = "1" -> 1 [] c = "2" -> 2
                   [] c = "3" -> 3 [] c = "4" -> 4 [] c = "5" -> 5
                   [] c = "6" -> 6 [] c = "7" -> 7 [] c = "8" -> 8
                   [] c = "9" -> 9

RECURSIVE IntOf(_)
IntOf(s) == IF s = <<>> THEN 0
            ELSE 10 * IntOf(SubSeq(s, 1, Len(s) - 1)) + DigitValue(s[Len(s)])

\* urlparse() of a rule path raises ValueError ("Invalid IPv6 URL") when the
\* path has a network location ("//...") with an unmatched bracket
UrlParseRaises(path) ==
    /\ StartsWith(path, <<"/", "/">>)
    /\ (\E i \in 1..Len(path) : path[i] = "[")
    /\ ~(\E i \in 1..Len(path) : path[i] = "]")

(***************************************************************************)
(* urllib.robotparser: RuleLine, Entry, RobotFileParser.                   *)
(* An optional value (Python's None) is the empty sequence, a present      *)
(* value v is <<v>>.                                                       *)
(***************************************************************************)
\* RuleLine.__init__: an empty Disallow value means allow all
RuleLine(path, allowance) ==
    [path |-> Quote(path),
     allowance |-> IF path = <<>> /\ ~allowance THEN TRUE ELSE allowance]

\* RuleLine.applies_to
RuleAppliesTo(rule, filename) ==
    rule.path = <<"*">> \/ StartsWith(filename, rule.path)

\* Entry.__init__
NewEntry == [useragents |-> <<>>, rulelines |-> <<>>, delay |-> <<>>]

\* one agent name of an entry against the guard's identity
AgentMatches(agent, useragent) ==
    \/ agent = <<"*">>
    \/ IsSubstring(Lower(agent), Lower(BeforeSlash(useragent)))

\* Entry.applies_to
EntryAppliesTo(entry, useragent) ==
    \E i \in 1..Len(entry.useragents) : AgentMatches(entry.useragents[i], useragent)

\* Entry.allowance: the first rule line that applies decides
RECURSIVE Allowance(_, _)
Allowance(rulelines, filename) ==
    IF rulelines = <<>> THEN TRUE
    ELSE IF RuleAppliesTo(Head(rulelines), filename) THEN Head(rulelines).allowance
    ELSE Allowance(Tail(rulelines), filename)

\* RobotFileParser.__init__ followed by set_url
NewParser(url) ==
    [url |-> url, entries |-> <<>>, default_entry |-> <<>>, sitemaps |-> <<>>,
     last_checked |-> FALSE]

\* RobotFileParser._add_entry: the first default entry wins
AddEntry(p, entry) ==
    IF \E i \in 1..Len(entry.useragents) : entry.useragents[i] = <<"*">>
    THEN (IF p.default_entry = <<>> THEN [p EXCEPT !.default_entry = <<entry>>] ELSE p)
    ELSE [p EXCEPT !.entries = Append(@, entry)]

Blank == [name |-> "", value |-> <<>>]

Line(name, value) == [name |-> name, value |-> value]

\* One iteration of the loop of RobotFileParser.parse over a line, from
\* the loop state c = [p, state, entry, raised]; the value of a directive
\* is unquoted before it is used
ParseLine(c, raw) ==
    LET line == Line(raw.name, Unquote(raw.value)) IN
    IF line = Blank THEN
        CASE c.state = 1 -> [c EXCEPT !.entry = NewEntry, !.state = 0]
          [] c.state = 2 -> [c EXCEPT !.p = AddEntry(c.p, c.entry),
                                      !.entry = NewEntry, !.state = 0]
          [] OTHER -> c
    ELSE CASE line.name = "user-agent" ->
                LET d == IF c.state = 2
                         THEN [c EXCEPT !.p = AddEntry(c.p, c.entry), !.entry = NewEntry]
                         ELSE c
                IN [d EXCEPT !.entry.useragents = Append(@, line.value), !.state = 1]
           [] line.name \in {"disallow", "allow"} ->
                IF c.state = 0 THEN c
                ELSE IF UrlParseRaises(line.value) THEN [c EXCEPT !.raised = TRUE]
                ELSE [c EXCEPT !.entry.rulelines =
                                  Append(@, RuleLine(line.value, line.name = "allow")),
                               !.state = 2]
           [] line.name = "crawl-delay" ->
                IF c.state = 0 THEN c
                ELSE IF ~IsDigit(line.value) THEN [c EXCEPT !.state = 2]
                ELSE IF IntRaises(line.value) THEN [c EXCEPT !.raised = TRUE]
                ELSE [c EXCEPT !.entry.delay = <<IntOf(line.value)>>, !.state = 2]
           [] line.name = "sitemap" ->
                [c EXCEPT !.p.sitemaps = Append(@, line.value)]
           [] OTHER -> c

RECURSIVE ParseLoop(_, _)
ParseLoop(c, lines) ==
    IF c.raised \/ lines = <<>> THEN c
    ELSE ParseLoop(ParseLine(c, Head(lines)), Tail(lines))

\* RobotFileParser.parse(lines): [p |-> the parser afterwards, raised |->
\* whether ValueError left the call]
Parse(p, lines) ==
    LET c0 == [p |-> [p EXCEPT !.last_checked = TRUE], state |-> 0,
               entry |-> NewEntry, raised |-> FALSE]
        c  == ParseLoop(c0, lines)
    IN IF c.raised THEN [p |-> c.p, raised |-> TRUE]
       ELSE [p |-> IF c.state = 2 THEN AddEntry(c.p, c.entry) ELSE c.p,
             raised |-> FALSE]

\* what follows "scheme://" in the URL as written
UrlString(url) ==
    url.netloc \o url.path \o (IF url.query = <<>> THEN <<>> ELSE <<"?">> \o url.query)

\* urlparse: the network location ends before the first "/" or "?"
AfterNetloc(s) ==
    LET ends == {i \in 1..Len(s) : s[i] \in {"/", "?"}}
    IN IF ends = {} THEN <<>>
       ELSE SubSeq(s, CHOOSE i \in ends : \A j \in ends : i <= j, Len(s))

\* the string can_fetch matches on: the URL is unquoted and then parsed,
\* what the parse finds after the network location (path and query) is
\* put together again and quoted, "/" when that is empty
UrlFile(url) ==
    LET q == Quote(AfterNetloc(Unquote(UrlString(url))))
    IN IF q = <<>> THEN <<"/">> ELSE q

RECURSIVE FirstApplicable(_, _)
FirstApplicable(entries, useragent) ==
    IF entries = <<>> THEN <<>>
    ELSE IF EntryAppliesTo(Head(entries), useragent) THEN <<Head(entries)>>
    ELSE FirstApplicable(Tail(entries), useragent)

\* the entry can_fetch and crawl_delay answer from: the first entry that
\* applies, the default entry last, <<>> when there is none
MatchedEntry(p, useragent) ==
    LET e == FirstApplicable(p.entries, useragent)
    IN IF e # <<>> THEN e ELSE p.default_entry

\* RobotFileParser.can_fetch
ParserCanFetch(p, useragent, url) ==
    IF ~p.last_checked THEN FALSE
    ELSE LET m == MatchedEntry(p, useragent)
         IN IF m = <<>> THEN TRUE ELSE Allowance(m[1].rulelines, UrlFile(url))

\* RobotFileParser.crawl_delay
ParserCrawlDelay(p, useragent) ==
    IF ~p.last_checked THEN <<>>
    ELSE LET m == MatchedEntry(p, useragent)
         IN IF m = <<>> THEN <<>> ELSE m[1].delay

(***************************************************************************)
(* urljoin(base_url, "robots.txt").                                        *)
(***************************************************************************)
RobotsTxt == <<"r", "o", "b", "o", "t", "s", ".", "t", "x", "t">>

\* the base path up to and including its last "/"
RECURSIVE DirName(_)
DirName(path) ==
    IF path = <<>> THEN <<>>
    ELSE IF path[Len(path)] = "/" THEN path
    ELSE DirName(SubSeq(path, 1, Len(path) - 1))

\* UrlJoin with a fault injected: the reference is appended to the base as
\* it stands, without the "/" an empty base path needs
UrlJoinConcat(base, ref) ==
    [scheme |-> base.scheme, netloc |-> base.netloc,
     path |-> base.path \o ref, query |-> <<>>]

\* RFC 3986 resolution of a relative path against base: the base's scheme
\* and host, its path merged with the reference, no query
UrlJoin(base, ref) ==
    [scheme |-> base.scheme, netloc |-> base.netloc,
     path |-> IF base.path = <<>> THEN <<"/">> \o ref ELSE DirName(base.path) \o ref,
     query |-> <<>>]

(***************************************************************************)
(* Inputs: origins, identities, robots.txt bodies, URLs asked about.       *)
(***************************************************************************)
Url(netloc, path, query) ==
    [scheme |-> "https", netloc |-> netloc, path |-> path, query |-> query]

NoUrl == [scheme |-> "", netloc |-> <<>>, path |-> <<>>, query |-> <<>>]

\* hosts, as sequences of pieces: example.com, other.org, ex%3Fample.com
ExampleCom == <<"example.com">>

OtherOrg == <<"other.org">>

EncodedHost == <<"ex", "%", "3", "F", "ample.com">>

\* "https://example.com" and "https://example.com/"
Origins == {Url(ExampleCom, <<>>, <<>>), Url(ExampleCom, <<"/">>, <<>>)}

Wildcard == <<"*">>

BotSlash1 == <<"B", "o", "t", "/", "1">>

Cat == <<"c", "a", "t">>

Identities == {Wildcard, BotSlash1, Cat}

Bot == <<"b", "o", "t">>

Private == <<"/", "p", "r", "i", "v", "a", "t", "e">>

PathSlash == <<"/">>

PathA == <<"/", "a">>

PathAB == <<"/", "a", "/", "b">>

Sitemap1 == <<"s", "1">>

Sitemap2 == <<"s", "2">>

\* "User-agent: *\nDisallow: /private\n"
PrivatePolicy == <<Line("user-agent", Wildcard), Line("disallow", Private)>>

\* "User-agent: *\nDisallow: /a\nDisallow: /private\n"
TwoDisallowPolicy ==
    <<Line("user-agent", Wildcard), Line("disallow", PathA), Line("disallow", Private)>>

\* "User-agent: *\nDisallow: /a\nAllow: /a/b\n" and the reverse order
ShortFirstPolicy ==
    <<Line("user-agent", Wildcard), Line("disallow", PathA), Line("allow", PathAB)>>

LongFirstPolicy ==
    <<Line("user-agent", Wildcard), Line("allow", PathAB), Line("disallow", PathA)>>

\* a group for bot ("Bot" in the first) and a wildcard group, in both orders
BotThenWildcardPolicy ==
    <<Line("user-agent", <<"B", "o", "t">>), Line("disallow", Private),
      Line("user-agent", Wildcard), Line("crawl-delay", <<"5">>)>>

WildcardThenBotPolicy ==
    <<Line("user-agent", Wildcard), Line("disallow", Private),
      Line("user-agent", Bot), Line("crawl-delay", <<"7">>), Line("disallow", PathA)>>

\* "User-agent: *\nCrawl-delay: 5\n"
DelayPolicy == <<Line("user-agent", Wildcard), Line("crawl-delay", <<"5">>)>>

\* "User-agent: *\nCrawl-delay: 2.5\n"
FractionalDelayPolicy ==
    <<Line("user-agent", Wildcard), Line("crawl-delay", <<"2", ".", "5">>)>>

\* "Sitemap: s1\nUser-agent: *\nDisallow: /private\nSitemap: s2\n\nUser-agent: *\nCrawl-delay: ²\n"
BadDelayPolicy ==
    <<Line("sitemap", Sitemap1), Line("user-agent", Wildcard),
      Line("disallow", Private), Line("sitemap", Sitemap2), Blank,
      Line("user-agent", Wildcard), Line("crawl-delay", <<"sup2">>)>>

\* "Sitemap: s1\nUser-agent: *\nDisallow: /private\nSitemap: s2\n"
SitemapPolicy ==
    <<Line("sitemap", Sitemap1), Line("user-agent", Wildcard),
      Line("disallow", Private), Line("sitemap", Sitemap2)>>

\* "s%3F"
SitemapEncoded == <<"s", "%", "3", "F">>

\* "User-agent: *\nAllow: /\nSitemap: s%3F\n"
EncodedSitemapPolicy ==
    <<Line("user-agent", Wildcard), Line("allow", PathSlash),
      Line("sitemap", SitemapEncoded)>>

Policies == {PrivatePolicy, TwoDisallowPolicy, ShortFirstPolicy, LongFirstPolicy, BotThenWildcardPolicy,
             WildcardThenBotPolicy, DelayPolicy, FractionalDelayPolicy, BadDelayPolicy,
             SitemapPolicy, EncodedSitemapPolicy}

StatusCodes == {200, 404, 403, 500}

Response(status, body) == [status_code |-> status, text |-> body]

\* what the transport can answer: a 200 with a body, or another status
Responses == {Response(200, b) : b \in Policies}
             \cup {Response(c, <<>>) : c \in StatusCodes \ {200}}

\* httpx.HTTPError subclasses the transport raises
TransportErrors == {"ConnectError", "ReadTimeout"}

\* the URLs asked about: no path; no path and a query; three paths on the
\* guard's host; "/private/x" on another scheme and host, and on a host
\* with a percent-encoded "?"
Urls == {Url(ExampleCom, <<>>, <<>>),
         Url(ExampleCom, <<>>, <<"x">>),
         Url(ExampleCom, Private \o <<"/", "x">>, <<>>),
         Url(ExampleCom, <<"/", "p", "u", "b", "l", "i", "c">>, <<>>),
         Url(ExampleCom, <<"/", "a", "/", "b", "/", "c">>, <<>>),
         [Url(OtherOrg, Private \o <<"/", "x">>, <<>>) EXCEPT !.scheme = "http"],
         Url(EncodedHost, Private \o <<"/", "x">>, <<>>)}

Tasks == {"t1", "t2"}

(***************************************************************************)
(* RobotGuard.                                                             *)
(***************************************************************************)
\* the result of the last operation that returned or raised: err is the
\* exception that left it ("" when it returned), val the value returned
Result(op, arg, err, val) == [op |-> op, arg |-> arg, err |-> err, val |-> val]

NoResult == Result("", NoUrl, "", <<>>)

\* RobotGuard.__init__
Init ==
    /\ base_url \in Origins
    /\ user_agent \in Identities
    /\ robots_txt_url = UrlJoin(base_url, RobotsTxt)
    /\ parser = NewParser(robots_txt_url)
    /\ loaded = FALSE
    /\ pending = [t \in Tasks |-> <<>>]
    /\ sent = 0
    /\ received = <<>>
    /\ last = NoResult

\* GetRequest with a fault injected: the GET goes to the base URL
GetRequestToBase == [url |-> base_url, timeout |-> GetTimeout]

\* client.get(self.robots_txt_url, timeout=10.0)
GetRequest == [url |-> robots_txt_url, timeout |-> GetTimeout]

\* load() up to its await: task t issues the GET and is suspended on it
LoadStart(t) ==
    /\ pending[t] = <<>>
    /\ sent < MaxLoads
    /\ pending' = [pending EXCEPT ![t] = <<GetRequest>>]
    /\ sent' = sent + 1
    /\ UNCHANGED <<base_url, user_agent, robots_txt_url, parser, loaded, received, last>>

\* the lines load() hands to parser.parse for a response: the body's lines
\* on 200, none on 404, the deny-all policy otherwise
DenyAllLines == <<Line("user-agent", Wildcard), Line("disallow", PathSlash)>>

\* ResponseLines with a fault injected: the 404 branch is missing, so a 404
\* falls into the deny-all branch
ResponseLinesNo404(resp) ==
    IF resp.status_code = 200 THEN resp.text ELSE DenyAllLines

\* ResponseLines with a fault injected: the 200 branch hands the parser the
\* text itself, whose "lines" are then single characters, none a directive
ResponseLinesTextNotSplit(resp) ==
    IF resp.status_code = 200 THEN <<>>
    ELSE IF resp.status_code = 404 THEN <<>>
    ELSE DenyAllLines

ResponseLines(resp) ==
    IF resp.status_code = 200 THEN resp.text
    ELSE IF resp.status_code = 404 THEN <<>>
    ELSE DenyAllLines

\* whether load() sets self.loaded = True after the parse: only when the
\* parse returned
LoadedAfter(raised) == IF raised THEN loaded ELSE TRUE

\* load() from the response on: the status branch, the parse, the flag
LoadReceive(t, resp) ==
    /\ pending[t] # <<>>
    /\ LET r == Parse(parser, ResponseLines(resp))
       IN /\ parser' = r.p
          /\ loaded' = LoadedAfter(r.raised)
          /\ last' = Result("load", NoUrl, IF r.raised THEN "ValueError" ELSE "", <<>>)
    /\ pending' = [pending EXCEPT ![t] = <<>>]
    /\ received' = Append(received, resp)
    /\ UNCHANGED <<base_url, user_agent, robots_txt_url, sent>>

\* LoadFail with a fault injected: an error handler clears the flag before
\* re-raising
LoadFailResets(t, e) ==
    /\ pending[t] # <<>>
    /\ pending' = [pending EXCEPT ![t] = <<>>]
    /\ loaded' = FALSE
    /\ last' = Result("load", NoUrl, e, <<>>)
    /\ UNCHANGED <<base_url, user_agent, robots_txt_url, parser, sent, received>>

\* LoadFail with a fault injected: a transport error is swallowed into the
\* deny-all policy, like a status that is neither 200 nor 404
LoadFailSwallowed(t, e) ==
    /\ pending[t] # <<>>
    /\ pending' = [pending EXCEPT ![t] = <<>>]
    /\ parser' = Parse(parser, <<Line("user-agent", Wildcard), Line("disallow", PathSlash)>>).p
    /\ loaded' = TRUE
    /\ last' = Result("load", NoUrl, "", <<>>)
    /\ UNCHANGED <<base_url, user_agent, robots_txt_url, sent, received>>

\* LoadFail with a fault injected: load() catches the transport error and
\* issues the GET again
LoadFailRetries(t, e) ==
    /\ pending[t] # <<>>
    /\ sent < MaxLoads
    /\ sent' = sent + 1
    /\ UNCHANGED <<base_url, user_agent, robots_txt_url, parser, loaded, pending,
                   received, last>>

\* the awaited GET raises a transport error, which leaves load()
LoadFail(t, e) ==
    /\ pending[t] # <<>>
    /\ pending' = [pending EXCEPT ![t] = <<>>]
    /\ last' = Result("load", NoUrl, e, <<>>)
    /\ UNCHANGED <<base_url, user_agent, robots_txt_url, parser, loaded, sent, received>>

\* CheckLoaded with a fault injected: the check never raises
CheckLoadedNever == ""

\* RobotGuard._check_loaded: the exception it raises, "" when it returns
CheckLoaded == IF ~loaded THEN "RuntimeError" ELSE ""

\* CanFetch with a fault injected: the parser is asked about "*" instead of
\* the guard's user agent
CanFetchAsWildcard(url) ==
    /\ last' = IF CheckLoaded # "" THEN Result("can_fetch", url, CheckLoaded, <<>>)
               ELSE Result("can_fetch", url, "", <<ParserCanFetch(parser, Wildcard, url)>>)
    /\ UNCHANGED <<base_url, user_agent, robots_txt_url, parser, loaded,
                   pending, sent, received>>

\* RobotGuard.can_fetch
CanFetch(url) ==
    /\ last' = IF CheckLoaded # "" THEN Result("can_fetch", url, CheckLoaded, <<>>)
               ELSE Result("can_fetch", url, "", <<ParserCanFetch(parser, user_agent, url)>>)
    /\ UNCHANGED <<base_url, user_agent, robots_txt_url, parser, loaded,
                   pending, sent, received>>

\* RobotGuard.get_crawl_delay
GetCrawlDelay ==
    /\ last' = IF CheckLoaded # "" THEN Result("get_crawl_delay", NoUrl, CheckLoaded, <<>>)
               ELSE Result("get_crawl_delay", NoUrl, "", ParserCrawlDelay(parser, user_agent))
    /\ UNCHANGED <<base_url, user_agent, robots_txt_url, parser, loaded,
                   pending, sent, received>>

\* GetSitemaps with a fault injected: the list is handed over and the
\* parser starts a new one
GetSitemapsDrains ==
    /\ last' = IF CheckLoaded # "" THEN Result("get_sitemaps", NoUrl, CheckLoaded, <<>>)
               ELSE Result("get_sitemaps", NoUrl, "", parser.sitemaps)
    /\ parser' = IF CheckLoaded # "" THEN parser ELSE [parser EXCEPT !.sitemaps = <<>>]
    /\ UNCHANGED <<base_url, user_agent, robots_txt_url, loaded,
                   pending, sent, received>>

\* RobotGuard.get_sitemaps
GetSitemaps ==
    /\ last' = IF CheckLoaded # "" THEN Result("get_sitemaps", NoUrl, CheckLoaded, <<>>)
               ELSE Result("get_sitemaps", NoUrl, "", parser.sitemaps)
    /\ UNCHANGED <<base_url, user_agent, robots_txt_url, parser, loaded,
                   pending, sent, received>>

Next ==
    \/ \E t \in Tasks : LoadStart(t)
    \/ \E t \in Tasks, resp \in Responses : LoadReceive(t, resp)
    \/ \E t \in Tasks, e \in TransportErrors : LoadFail(t, e)
    \/ \E url \in Urls : CanFetch(url)
    \/ GetCrawlDelay
    \/ GetSitemaps

Spec == Init /\ [][Next]_vars

(***************************************************************************)
(* Properties.                                                             *)
(***************************************************************************)
QueryOps == {"can_fetch", "get_crawl_delay", "get_sitemaps"}

\* a load() call of task t ended in this step without a response: the
\* awaited GET raised
TransportRaised == /\ \E t \in Tasks : pending[t] # <<>> /\ pending'[t] = <<>>
                   /\ received' = received

\* C1: a query on a guard whose loaded flag is false raises the not-ready
\* RuntimeError and returns no value, for every identity and every URL
C1_QueryUnloadedNotReady ==
    (last.op \in QueryOps /\ ~loaded) => (last.err = "RuntimeError" /\ last.val = <<>>)

\* can_fetch was refused while a load is suspended on its fetch, after an
\* earlier load failed
C1_Witness ==
    /\ ~loaded /\ sent = 2 /\ received = <<>>
    /\ \E t \in Tasks : pending[t] # <<>>
    /\ \E t \in Tasks : pending[t] = <<>>
    /\ last.op = "can_fetch" /\ last.err = "RuntimeError"

\* C2: loaded starts false and, once true, no load (whatever its outcome)
\* and no query makes it false again
C2_LoadedTerminal == (~loaded) /\ [][loaded => loaded']_vars

\* a load failed with a transport error on a guard that was loaded already
C2_Witness == loaded /\ received # <<>> /\ last.op = "load" /\ last.err \in TransportErrors

\* C3: when the GET raises a transport error, load() leaves with that
\* error, the loaded flag and the parser are as before, and a guard that
\* was not loaded still answers every query with the not-ready error
C3_TransportErrorPropagates ==
    [][TransportRaised =>
         /\ last'.op = "load" /\ last'.err \in TransportErrors
         /\ loaded' = loaded /\ parser' = parser
         /\ (~loaded => CheckLoaded' = "RuntimeError")]_vars

\* a query was refused after the guard's only load failed in the transport
C3_Witness ==
    /\ ~loaded /\ sent = 1 /\ received = <<>>
    /\ \A t \in Tasks : pending[t] = <<>>
    /\ last.op = "get_sitemaps" /\ last.err = "RuntimeError"

\* the guard's loads have received exactly one response so far, with this
\* status (transport errors before or after it do not count)
OnlyResponseHas(statuses) ==
    Len(received) = 1 /\ received[1].status_code \in statuses

\* C4: after the guard's load() received a status that is neither 200 nor
\* 404 (the one response it has received), can_fetch returns False for
\* every URL and every identity
C4_OtherStatusDeniesEveryUrl ==
    (OnlyResponseHas(StatusCodes \ {200, 404}) /\ last.op = "can_fetch")
        => (last.err = "" /\ last.val = <<FALSE>>)

\* C5: after the guard's load() received a 404 (the one response it has
\* received), can_fetch returns True for every URL and every identity,
\* get_sitemaps returns the empty list and get_crawl_delay returns None
C5_NotFoundAllowsEveryUrl ==
    OnlyResponseHas({404}) =>
        /\ loaded
        /\ \A url \in Urls : ParserCanFetch(parser, user_agent, url)
        /\ last.op \in QueryOps => last.err = ""
        /\ last.op = "can_fetch" => last.val = <<TRUE>>
        /\ last.op = "get_sitemaps" => last.val = <<>>
        /\ last.op = "get_crawl_delay" => last.val = <<>>

\* can_fetch answered True for a named identity after a 404
C5_Witness ==
    /\ OnlyResponseHas({404}) /\ user_agent = BotSlash1
    /\ last.op = "can_fetch" /\ last.val = <<TRUE>>
    /\ last.arg.path = Private \o <<"/", "x">>

\* C6: every load() whose GET returned a response, whatever its status,
\* returns without raising and leaves loaded = True
C6_ResponseAlwaysLoads ==
    (last.op = "load" /\ last.err \notin TransportErrors) => (last.err = "" /\ loaded)

(***************************************************************************)
(* What a robots.txt body declares, read off its lines: a body of groups,  *)
(* each one User-agent line followed by its directives.                    *)
(***************************************************************************)
IsRuleLine(line) == line.name \in {"allow", "disallow"}

\* one wildcard group holding only Disallow lines
IsWildcardDisallowOnly(body) ==
    /\ Len(body) >= 2
    /\ body[1] = Line("user-agent", Wildcard)
    /\ \A i \in 2..Len(body) : body[i].name = "disallow" /\ body[i].value # <<>>

DisallowedBy(body, path) ==
    \E i \in 2..Len(body) : StartsWith(path, body[i].value)

\* C7: after the guard's load() received a 200 (the one response it has
\* received) whose body declares a wildcard group of Disallow prefixes,
\* can_fetch returns False for every URL whose path begins with one of the
\* prefixes and True for every other URL, for every identity (the path is
\* the URL's path component as written)
C7_DisallowPrefix ==
    (OnlyResponseHas({200}) /\ IsWildcardDisallowOnly(received[1].text)) =>
        /\ loaded
        /\ last.op = "can_fetch" =>
              /\ last.err = ""
              /\ last.val = <<~DisallowedBy(received[1].text, last.arg.path)>>

\* can_fetch(".../private/x") answered False under "Disallow: /private"
C7_Witness ==
    /\ received = <<Response(200, PrivatePolicy)>>
    /\ last.op = "can_fetch" /\ last.arg.path = Private \o <<"/", "x">>
    /\ last.val = <<FALSE>>

\* one wildcard group holding only Allow and Disallow lines
IsWildcardRulesOnly(body) ==
    /\ Len(body) >= 2
    /\ body[1] = Line("user-agent", Wildcard)
    /\ \A i \in 2..Len(body) : IsRuleLine(body[i]) /\ body[i].value # <<>>

\* longest-match-wins over the rule lines of such a body: the applicable
\* line with the longest path decides, whatever its position
LongestMatchAllows(body, path) ==
    LET applicable == {i \in 2..Len(body) : StartsWith(path, body[i].value)}
    IN IF applicable = {} THEN TRUE
       ELSE LET best == CHOOSE i \in applicable :
                           \A j \in applicable : Len(body[j].value) <= Len(body[i].value)
            IN body[best].name = "allow"

\* C8: when several Allow and Disallow lines of the matched group apply to
\* the URL, can_fetch answers with the line of the longest path, whatever
\* the order of the lines
C8_LongestMatchWins ==
    (OnlyResponseHas({200}) /\ IsWildcardRulesOnly(received[1].text)
        /\ last.op = "can_fetch")
        => (last.err = "" /\ last.val = <<LongestMatchAllows(received[1].text, last.arg.path)>>)

\* a body of groups: every group is one User-agent line followed by at
\* least one Allow, Disallow or Crawl-delay line, and nothing else
IsGroupedPolicy(body) ==
    /\ body # <<>>
    /\ body[1].name = "user-agent"
    /\ \A i \in 1..Len(body) :
          /\ body[i].name \in {"user-agent", "allow", "disallow", "crawl-delay"}
          /\ body[i].name = "user-agent" =>
                (i < Len(body) /\ body[i + 1].name # "user-agent")

GroupStarts(body) == {i \in 1..Len(body) : body[i].name = "user-agent"}

\* the directive lines of the group that starts at line g
GroupLines(body, g) ==
    {i \in (g + 1)..Len(body) :
        \A j \in (g + 1)..i : body[j].name # "user-agent"}

\* a group is declared for the identity when its agent is the identity's
\* product token, whatever the case
NamesIdentity(agent, identity) ==
    agent # Wildcard /\ Lower(agent) = Lower(BeforeSlash(identity))

NamedGroups(body, identity) ==
    {g \in GroupStarts(body) : NamesIdentity(body[g].value, identity)}

WildcardGroups(body) == {g \in GroupStarts(body) : body[g].value = Wildcard}

\* the group that governs the identity: its own group, the wildcard group
\* when it has none (a set of at most one line number)
GoverningGroup(body, identity) ==
    IF NamedGroups(body, identity) # {} THEN NamedGroups(body, identity)
    ELSE WildcardGroups(body)

DelayLines(body, g) == {i \in GroupLines(body, g) : body[i].name = "crawl-delay"}

IsWholeNumber(v) == v # <<>> /\ \A i \in 1..Len(v) : v[i] \in AsciiDigits

\* a decimal number such as 5 or 2.5
IsNumber(v) ==
    /\ v # <<>> /\ v[1] \in AsciiDigits /\ v[Len(v)] \in AsciiDigits
    /\ \A i \in 1..Len(v) : v[i] \in AsciiDigits \cup {"."}
    /\ Cardinality({i \in 1..Len(v) : v[i] = "."}) <= 1

\* bodies in which the governing group and its answers are unambiguous: at
\* most one group per agent, at most one rule line and one Crawl-delay line
\* per group
IsPlainGroupedPolicy(body, identity) ==
    /\ IsGroupedPolicy(body)
    /\ Cardinality(NamedGroups(body, identity)) <= 1
    /\ Cardinality(WildcardGroups(body)) <= 1
    /\ \A g \in GroupStarts(body) :
          /\ Cardinality({i \in GroupLines(body, g) : IsRuleLine(body[i])}) <= 1
          /\ Cardinality(DelayLines(body, g)) <= 1
          /\ \A i \in GroupLines(body, g) : IsRuleLine(body[i]) => body[i].value # <<>>

\* the answer of group g to the string a URL is matched on
GroupAllows(body, g, path) ==
    \A i \in GroupLines(body, g) :
        (IsRuleLine(body[i]) /\ StartsWith(path, body[i].value)) => body[i].name = "allow"

C10_DeclaredDelayReturned ==
    (/\ OnlyResponseHas({200})
     /\ IsPlainGroupedPolicy(received[1].text, user_agent)
     /\ \A i \in 1..Len(received[1].text) :
           received[1].text[i].name = "crawl-delay" => IsNumber(received[1].text[i].value)
     /\ last.op = "get_crawl_delay")
    => LET body == received[1].text
           G == GoverningGroup(body, user_agent)
           declared == {i \in 1..Len(body) : \E g \in G : i \in DelayLines(body, g)}
       IN /\ last.err = ""
          /\ (last.val = <<>>) <=> (declared = {})
          /\ \A i \in declared :
                IsWholeNumber(body[i].value) => last.val = <<IntOf(body[i].value)>>

\* the values of the Sitemap lines of a body, in their order of appearance
RECURSIVE SitemapValues(_)
SitemapValues(body) ==
    IF body = <<>> THEN <<>>
    ELSE (IF Head(body).name = "sitemap" THEN <<Head(body).value>> ELSE <<>>)
         \o SitemapValues(Tail(body))

\* C11: after the guard's load() received a 200 (the one response it has
\* received), get_sitemaps returns exactly the values of the Sitemap lines
\* of the body, whatever group they stand in or after, in their order of
\* appearance, and returns them again on every later call
C11_SitemapsAsDeclared ==
    (OnlyResponseHas({200}) /\ last.op = "get_sitemaps")
        => (last.err = "" /\ last.val = SitemapValues(received[1].text))

\* "https://example.com/robots.txt"
ExampleRobotsUrl == Url(ExampleCom, <<"/">> \o RobotsTxt, <<>>)

\* C12: the policy URL is "robots.txt" resolved against the base origin:
\* for "https://example.com" and for "https://example.com/" alike it is
\* "https://example.com/robots.txt"
C12_TrailingSlashSamePolicyUrl ==
    /\ \A o \in Origins : UrlJoin(o, RobotsTxt) = ExampleRobotsUrl
    /\ base_url \in Origins => robots_txt_url = ExampleRobotsUrl

\* a guard built on the origin without the trailing slash has requested
\* its policy
C12_Witness ==
    /\ base_url = Url(ExampleCom, <<>>, <<>>)
    /\ robots_txt_url = ExampleRobotsUrl
    /\ \E t \in Tasks : pending[t] # <<>> /\ pending[t][1].url = ExampleRobotsUrl

\* C13: the policy URL is the one computed at construction, no operation
\* changes it, the base origin or the identity, and every load() requests
\* that URL
C13_PolicyUrlFixed ==
    /\ [](/\ robots_txt_url = UrlJoin(base_url, RobotsTxt)
          /\ \A t \in Tasks : pending[t] # <<>> => pending[t][1].url = robots_txt_url)
    /\ [][/\ robots_txt_url' = robots_txt_url
          /\ base_url' = base_url
          /\ user_agent' = user_agent]_vars

\* a second load is suspended on its GET for the policy URL after a first
\* load completed and a query was answered
C13_Witness ==
    /\ loaded /\ sent = 2 /\ Len(received) = 1
    /\ \E t \in Tasks : pending[t] # <<>> /\ pending[t][1].url = robots_txt_url
    /\ last.op = "get_crawl_delay" /\ last.err = ""

\* a step in which a query returned or raised
QueryStep == last'.op \in QueryOps /\ pending' = pending /\ last' # last

\* C14: a query, whether it answers or raises the not-ready error, leaves
\* loaded, the parser (rule set and sitemap list) and the policy URL as
\* they were, and its answer is the one the state it ran in determines, so
\* queries interleaved by several tasks answer as they do one after another
C14_QueriesArePureReads ==
    [][QueryStep =>
         /\ loaded' = loaded /\ parser' = parser /\ robots_txt_url' = robots_txt_url
         /\ received' = received /\ sent' = sent
         /\ ~loaded => last'.err = "RuntimeError"
         /\ loaded =>
               /\ last'.err = ""
               /\ last'.op = "can_fetch" =>
                     last'.val = <<ParserCanFetch(parser', user_agent, last'.arg)>>
               /\ last'.op = "get_crawl_delay" =>
                     last'.val = ParserCrawlDelay(parser', user_agent)
               /\ last'.op = "get_sitemaps" => last'.val = parser'.sitemaps]_vars

\* get_sitemaps answered with the declared sitemaps while a load of another
\* task is suspended, after the same guard answered an earlier query
C14_Witness ==
    /\ loaded /\ received = <<Response(200, SitemapPolicy)>>
    /\ \E t \in Tasks : pending[t] # <<>>
    /\ last.op = "get_sitemaps" /\ last.val = <<Sitemap1, Sitemap2>>
    /\ parser.sitemaps = <<Sitemap1, Sitemap2>>

\* a step in which a load() call ended, with a response or a transport error
LoadEnds == \E t \in Tasks : pending[t] # <<>> /\ pending'[t] = <<>>

\* C15: construction issues no request; a GET is issued only by a load()
\* call that starts, one per call, for the policy URL with timeout 10; a
\* load() that ends, whatever the outcome, has issued no further GET
C15_OneGetPerLoad ==
    /\ sent = 0 /\ \A t \in Tasks : pending[t] = <<>>
    /\ [](\A t \in Tasks : pending[t] # <<>> =>
              pending[t] = <<[url |-> robots_txt_url, timeout |-> 10]>>)
    /\ [][/\ sent' # sent =>
                /\ sent' = sent + 1
                /\ \E t \in Tasks :
                      /\ pending[t] = <<>> /\ pending'[t] # <<>>
                      /\ \A u \in Tasks \ {t} : pending'[u] = pending[u]
          /\ LoadEnds => sent' = sent]_vars

\* both loads of a guard ended, one in a transport error and one on a
\* status that is neither 200 nor 404, with two GETs issued in all
C15_Witness ==
    /\ sent = 2 /\ \A t \in Tasks : pending[t] = <<>>
    /\ Len(received) = 1 /\ received[1].status_code = 500
    /\ last.op = "load" /\ last.err \in TransportErrors

\* a guard of the same origin and identity, just constructed, whose first
\* load() receives resp: its parser afterwards and whether the parse raised
FreshLoad(resp) == Parse(NewParser(UrlJoin(base_url, RobotsTxt)), ResponseLines(resp))

\* every load() call of the guard has ended, one on a response and the
\* others (at least one) in a transport error
RetriedAfterFailure ==
    /\ Len(received) = 1 /\ sent > 1
    /\ \A t \in Tasks : pending[t] = <<>>

\* C16: after load() calls that raised a transport error, the load() that
\* receives response R leaves the guard loaded, and every query answers as
\* on a fresh guard of the same origin and identity whose first load()
\* received R
C16_RetryEqualsFresh ==
    (RetriedAfterFailure /\ last.err \notin TransportErrors) =>
        /\ loaded
        /\ parser = FreshLoad(received[1]).p
        /\ last.op \in QueryOps => last.err = ""
        /\ last.op = "can_fetch" =>
              last.val = <<ParserCanFetch(FreshLoad(received[1]).p, user_agent, last.arg)>>
        /\ last.op = "get_crawl_delay" =>
              last.val = ParserCrawlDelay(FreshLoad(received[1]).p, user_agent)
        /\ last.op = "get_sitemaps" => last.val = FreshLoad(received[1]).p.sitemaps

\* C17: whenever the response the guard received last is a 404 or a status
\* that is neither 200 nor 404, get_sitemaps returns the empty list
C17_SyntheticPolicyNoSitemaps ==
    (/\ received # <<>>
     /\ received[Len(received)].status_code # 200
     /\ last.op = "get_sitemaps")
        => (last.err = "" /\ last.val = <<>>)

\* two URLs with the same path and query, whatever their scheme and host
SamePathAndQuery(u, v) == u.path = v.path /\ u.query = v.query

\* C18: can_fetch matches on the URL's path and query only: it gives a URL
\* the answer every URL of the same path and query gets, whatever their
\* schemes and hosts, the guard's own origin or another
C18_SchemeAndHostIgnored ==
    (last.op = "can_fetch" /\ last.err = "") =>
        \A u \in Urls :
            SamePathAndQuery(u, last.arg) =>
                last.val = <<ParserCanFetch(parser, user_agent, u)>>

\* the parse of the k-th received response ran to its end
CompletelyApplied(k) == ~FreshLoad(received[k]).raised

\* C19: load() does not suspend between the response and loaded = True, so
\* a task sees loaded = True only when the rule set of at least one
\* received response has been applied completely, and a query that answers
\* never answers from a rule set that was parsed in part
C19_NoPartialRuleSet ==
    /\ loaded => \E k \in 1..Len(received) : CompletelyApplied(k)
    /\ (last.op \in QueryOps /\ last.err = "") =>
          \A k \in 1..Len(received) : CompletelyApplied(k)

\* the Sitemap values of the responses whose load() completed, in the
\* order the loads completed
RECURSIVE CompletedSitemaps(_)
CompletedSitemaps(k) ==
    IF k = 0 THEN <<>>
    ELSE CompletedSitemaps(k - 1)
         \o (IF CompletelyApplied(k) THEN SitemapValues(ResponseLines(received[k]))
             ELSE <<>>)

\* a occurs in b, in order, not necessarily contiguously
RECURSIVE IsSubsequence(_, _)
IsSubsequence(a, b) ==
    IF a = <<>> THEN TRUE
    ELSE IF b = <<>> THEN FALSE
    ELSE IF Head(a) = Head(b) THEN IsSubsequence(Tail(a), Tail(b))
    ELSE IsSubsequence(a, Tail(b))

\* the received responses whose lines declare a wildcard group
DeclaresWildcard == {k \in 1..Len(received) : WildcardGroups(ResponseLines(received[k])) # {}}

\* at least two load() calls of the guard have completed
LoadedMoreThanOnce ==
    Cardinality({k \in 1..Len(received) : CompletelyApplied(k)}) >= 2

\* C20: on a guard whose load() completed more than once the rule set
\* accumulates: the Sitemap values of every completed load are in what
\* get_sitemaps returns, in load-completion order, and the wildcard group
\* of the first load that declared one is the one that answers for "*",
\* whatever later loads received
C20_RuleSetAccumulates ==
    LoadedMoreThanOnce =>
        /\ IsSubsequence(CompletedSitemaps(Len(received)), parser.sitemaps)
        /\ last.op = "get_sitemaps" =>
              IsSubsequence(CompletedSitemaps(Len(received)), last.val)
        /\ IF DeclaresWildcard = {} THEN parser.default_entry = <<>>
           ELSE LET first == CHOOSE k \in DeclaresWildcard :
                                \A j \in DeclaresWildcard : k <= j
                IN /\ parser.default_entry = FreshLoad(received[first]).p.default_entry
                   /\ (user_agent = Wildcard /\ last.op = "can_fetch") =>
                         last.val = <<ParserCanFetch(FreshLoad(received[first]).p,
                                                    Wildcard, last.arg)>>

=============================================================================
